---- MODULE Spec2Model ----
(***************************************************************************)
(* Model of munininfluxdb/fetch.py: pack_values (value translation and     *)
(* point aggregation) and main (per-state-file loop, watermark, config     *)
(* persistence).                                                           *)
(*                                                                         *)
(* Strings that the code slices or parses (metric keys, raw values) are    *)
(* tuples of one-character strings.  Python floats are exact rationals     *)
(* [num, den] in lowest terms with den > 0.  Timestamps are integers.      *)
(***************************************************************************)
EXTENDS Integers, Sequences, FiniteSets, TLC

VARIABLES
    values,     \* the decoded state file: [metrics |-> <<entry, ...>>, date |-> Int]
    result,     \* what pack_values produced for values
    ppc,        \* position of the pack_values call: "call", "returned", "raised"
    pc,         \* position of main: "idle", "loop", "done", "exit1", "crashed"
    config,     \* the in-memory configuration object of main
    disk,       \* the configuration file
    idx,        \* 1-based position of the for loop in config['statefiles']
    readLog,    \* state files handed to read_state_file in this run, in order
    written,    \* batches accepted by client.write_points in this run
    saves,      \* number of json.dump calls in this run
    connected,  \* whether client.get_list_database() succeeded in this run
    exitcode,   \* exit status of the last process, -1 while none has ended
    runs        \* number of runs of main started so far

packVars == <<values, result, ppc>>
mainVars == <<pc, config, disk, idx, readLog, written, saves, connected, exitcode, runs>>
vars == <<values, result, ppc, pc, config, disk, idx, readLog, written, saves, connected, exitcode, runs>>

----------------------------------------------------------------------------
(* Bounds *)

MaxMetrics == 2

MaxRuns == 2

NumStateFiles == 2

----------------------------------------------------------------------------
(* Python helpers *)

Max(a, b) == IF a >= b THEN a ELSE b

Min(a, b) == IF a <= b THEN a ELSE b

Abs(a) == IF a < 0 THEN 0 - a ELSE a

RECURSIVE Gcd(_, _)
Gcd(a, b) == IF b = 0 THEN a ELSE Gcd(b, a % b)

\* Python's clamping of a slice bound against a sequence of length n
SliceIndex(i, n) == IF i < 0 THEN Max(i + n, 0) ELSE Min(i, n)

\* s[a:b]
PySlice(s, a, b) == SubSeq(s, SliceIndex(a, Len(s)) + 1, SliceIndex(b, Len(s)))

\* s.endswith(suf)
EndsWith(s, suf) ==
    /\ Len(s) >= Len(suf)
    /\ SubSeq(s, Len(s) - Len(suf) + 1, Len(s)) = suf

\* Tagged Python values held by the dictionaries pack_values builds
NoneVal == [k |-> "None"]

IntVal(n) == [k |-> "int", v |-> n]

FloatVal(n, d) == [k |-> "float", num |-> n, den |-> d]

TagsVal(domain, host, measurement) ==
    [k |-> "tags", domain |-> domain, host |-> host, plugin |-> measurement]

Raise(e) == [k |-> "raise", exc |-> e]

Digits == {"0", "1", "2", "3", "4", "5", "6", "7", "8", "9"}

DigitVal(c) ==
    CASE c = "0" -> 0 [] c = "1" -> 1 [] c = "2" -> 2 [] c = "3" -> 3
      [] c = "4" -> 4 [] c = "5" -> 5 [] c = "6" -> 6 [] c = "7" -> 7
      [] c = "8" -> 8 [] c = "9" -> 9

RECURSIVE DecimalVal(_)
DecimalVal(s) ==
    IF s = <<>> THEN 0
    ELSE 10 * DecimalVal(SubSeq(s, 1, Len(s) - 1)) + DigitVal(s[Len(s)])

IsDecimal(s) == Len(s) > 0 /\ \A i \in 1..Len(s) : s[i] \in Digits

\* float(s) for a string: an optionally signed run of digits parses, anything
\* else (the 'U' sentinel included) is a ValueError
PyFloat(s) ==
    IF IsDecimal(s) THEN FloatVal(DecimalVal(s), 1)
    ELSE IF Len(s) > 1 /\ s[1] = "-" /\ IsDecimal(Tail(s))
         THEN FloatVal(0 - DecimalVal(Tail(s)), 1)
         ELSE Raise("ValueError")

\* the float n/d in lowest terms, d # 0
Rational(n, d) ==
    LET g == Gcd(Abs(n), Abs(d))
        s == IF d < 0 THEN 0 - 1 ELSE 1
    IN  FloatVal((s * n) \div g, (s * d) \div g)

\* x - y on floats
FloatSub(x, y) == Rational(x.num * y.den - y.num * x.den, x.den * y.den)

\* x / n for a float x and an integer n
FloatDiv(x, n) ==
    IF n = 0 THEN Raise("ZeroDivisionError") ELSE Rational(x.num, x.den * n)

----------------------------------------------------------------------------
(* Inputs *)

RRD == <<".", "r", "r", "d">>

\* ":{0}".format(Defaults.DEFAULT_RRD_INDEX)
suffix == <<":", "4", "2">>

U == <<"U">>

NameG == <<"1", "g">> \o RRD
NameC == <<"2", "c">> \o RRD
NameD == <<"3", "d">> \o RRD
NameA == <<"4", "a">> \o RRD
NameX == <<"5", "x">> \o RRD
NameT == <<"7", "g">> \o RRD
NameOld == <<"6", "g">> \o RRD

\* config['metrics']: name -> <<domain, host, measurement, field>>
MetricsTable ==
    (NameG :> <<"d1", "hA", "m1", "f1">>) @@
    (NameC :> <<"d2", "hB", "m1", "f2">>) @@
    (NameD :> <<"d1", "hA", "m2", "f1">>) @@
    (NameA :> <<"d1", "hA", "m2", "time">>) @@
    (NameX :> <<"d1", "hA", "m1", "f3">>) @@
    (NameT :> <<"d1", "hA", "m2", "tags">>)

\* metric keys a decoded state file may hold
Keys ==
    { NameG \o suffix, NameG, NameC, NameD \o suffix, NameA, NameX, NameT,
      NameOld \o suffix }

Timestamps == {10, 13}

PrevTimestamps == {10}

RawCurrent == {U, <<"1", "2">>}

RawPrevious == {U, <<"5">>}

PackDates == {14, 700000}

Samples ==
    [current : Timestamps \X RawCurrent, previous : PrevTimestamps \X RawPrevious]

Entries == [metric : Keys, sample : Samples]

\* the sample sets of at most n metrics, as the sequence in which the
\* dictionary is iterated (keys of a dictionary are distinct)
SampleSets(n) ==
    UNION { { s \in [1..m -> Entries] :
                \A i, j \in 1..m : i # j => s[i].metric # s[j].metric }
            : m \in 0..n }

----------------------------------------------------------------------------
(* pack_values *)

\* key in d
HasKey(d, key) == key \in DOMAIN d

\* d[key] = val
DictSet(d, key, val) == (key :> val) @@ d

\* name of a metric key: the key without the RRD index suffix
StripSuffix(metric) ==
    IF EndsWith(metric, suffix) THEN PySlice(metric, 0, 0 - Len(suffix))
    ELSE metric

\* name[-5:-4]
RrdType(name) == PySlice(name, 0 - 5, 0 - 4)

\* mutant of SetTagsTime: tags and time are set on the first occurrence only
SetTagsTimeFirst(inner, domain, host, measurement, latest_date) ==
    IF HasKey(inner, "tags") THEN inner
    ELSE DictSet(DictSet(inner, "tags", TagsVal(domain, host, measurement)),
                 "time", IntVal(latest_date))

\* data[measurement]['tags'] = {...}; data[measurement]['time'] = int(latest_date)
SetTagsTime(inner, domain, host, measurement, latest_date) ==
    DictSet(DictSet(inner, "tags", TagsVal(domain, host, measurement)),
            "time", IntVal(latest_date))

\* mutant of Rate: the difference of the values, not divided by the elapsed time
RateNoDivide(latest_value, previous_value, latest_date, previous_date) ==
    LET l == PyFloat(latest_value)
        p == PyFloat(previous_value)
    IN  IF l.k = "raise" THEN l
        ELSE IF p.k = "raise" THEN p
        ELSE FloatSub(l, p)

\* (float(latest_value) - float(previous_value)) / (latest_date - previous_date)
Rate(latest_value, previous_value, latest_date, previous_date) ==
    LET l == PyFloat(latest_value)
        p == PyFloat(previous_value)
    IN  IF l.k = "raise" THEN l
        ELSE IF p.k = "raise" THEN p
        ELSE FloatDiv(FloatSub(l, p), latest_date - previous_date)

Absent == [k |-> "absent"]

\* the value assigned to data[measurement][field]: a value, Absent when no
\* branch assigns, or the exception raised while computing it
FieldValue(rrdtype, sample) ==
    LET latest_date == sample.current[1]
        latest_value == sample.current[2]
        previous_date == sample.previous[1]
        previous_value == sample.previous[2]
    IN  IF latest_value = U THEN NoneVal
        ELSE IF rrdtype = <<"a">> \/ rrdtype = <<"g">>
             THEN PyFloat(latest_value)
        ELSE IF rrdtype = <<"c">> \/ rrdtype = <<"d">>
             THEN Rate(latest_value, previous_value, latest_date, previous_date)
        ELSE Absent

\* state of the loop: exc is "none" until an exception escapes, order is the
\* insertion order of data's keys, warned lists the names printed as not found
EmptyLoop == [exc |-> "none", order |-> <<>>, data |-> <<>>, warned |-> <<>>]

\* one iteration of "for metric in metrics"
VisitMetric(cfg, date, st, entry) ==
    LET name == StripSuffix(entry.metric)
        latest_date == entry.sample.current[1]
    IN  IF name \in DOMAIN cfg.metrics
        THEN LET ident == cfg.metrics[name]
                 measurement == ident[3]
                 field == ident[4]
                 known == HasKey(st.data, measurement)
                 inner == IF known THEN st.data[measurement] ELSE <<>>
                 order == IF known THEN st.order ELSE Append(st.order, measurement)
                 tagged == SetTagsTime(inner, ident[1], ident[2], measurement, latest_date)
                 val == FieldValue(RrdType(name), entry.sample)
             IN  IF val.k = "raise" THEN [st EXCEPT !.exc = val.exc]
                 ELSE [st EXCEPT
                         !.order = order,
                         !.data = DictSet(st.data, measurement,
                                    IF val.k = "absent" THEN tagged
                                    ELSE DictSet(tagged, field, val))]
        ELSE LET age == (date - latest_date) \div (24 * 3600)
             IN  IF age < 7 THEN [st EXCEPT !.warned = Append(st.warned, name)]
                 ELSE st

RECURSIVE PackLoop(_, _, _, _, _)
PackLoop(cfg, date, metrics, i, st) ==
    IF i > Len(metrics) \/ st.exc # "none" THEN st
    ELSE PackLoop(cfg, date, metrics, i + 1, VisitMetric(cfg, date, st, metrics[i]))

\* one element of the returned list
Point(measurement, fields) ==
    [measurement |-> measurement,
     tags |-> fields["tags"],
     time |-> fields["time"],
     fields |-> [key \in DOMAIN fields \ {"time", "tags"} |-> fields[key]]]

\* pack_values(config, values): the list of points, or the exception raised
PackValues(cfg, vals) ==
    LET st == PackLoop(cfg, vals.date, vals.metrics, 1, EmptyLoop)
    IN  [exc |-> st.exc,
         points |-> IF st.exc # "none" THEN <<>>
                    ELSE [n \in 1..Len(st.order) |-> Point(st.order[n], st.data[st.order[n]])],
         warned |-> st.warned]

----------------------------------------------------------------------------
(* main: initial configuration *)

\* the locals values and data of main, and the result of a call of
\* pack_values, before they are bound
NoValues == [metrics |-> <<>>, date |-> 0]

NoResult == [exc |-> "none", points |-> <<>>, warned |-> <<>>]

None == <<>>

Some(n) == <<n>>

StateFiles == [n \in 1..NumStateFiles |-> n]

InitialLastUpdates == {None, Some(20)}

CollectionDates == {5, 20, 30}

\* metric keys of the state files main reads: a gauge, a counter and a key
\* that is not configured
MainKeys == {NameG \o suffix, NameC, NameOld \o suffix}

InitialConfig(lu) ==
    [metrics |-> MetricsTable, statefiles |-> StateFiles, lastupdate |-> lu]

----------------------------------------------------------------------------
(* Specification of a call of pack_values *)

PackInit ==
    /\ values \in [metrics : SampleSets(MaxMetrics), date : PackDates]
    /\ result = NoResult
    /\ ppc = "call"
    /\ pc = "idle"
    /\ config = InitialConfig(None)
    /\ disk = InitialConfig(None)
    /\ idx = 1
    /\ readLog = <<>>
    /\ written = <<>>
    /\ saves = 0
    /\ connected = FALSE
    /\ exitcode = 0 - 1
    /\ runs = 0

Pack ==
    /\ ppc = "call"
    /\ result' = PackValues(config, values)
    /\ ppc' = IF result'.exc = "none" THEN "returned" ELSE "raised"
    /\ UNCHANGED <<values>>
    /\ UNCHANGED mainVars

PackNext == Pack

SpecPack == PackInit /\ [][PackNext]_vars

----------------------------------------------------------------------------
(* main *)

\* what read_state_file may return for a state file: the decoded sample set
\* and its collection timestamp
StateFileContents ==
    [metrics : { s \in SampleSets(1) : \A i \in DOMAIN s : s[i].metric \in MainKeys },
     date : CollectionDates]

\* config['lastupdate'] or 0
OrZero(lu) == IF lu = None \/ lu = Some(0) THEN 0 ELSE lu[1]

\* mutant of NewLastUpdate: the collection timestamp, without the max
NewLastUpdateNoMax(lu, date) == Some(date)

\* max(config['lastupdate'] or 0, int(values[1]))
NewLastUpdate(lu, date) == Some(Max(OrZero(lu), date))

\* mutant of ConnectOutcome: the failed check does not end the run
ConnectOutcomeNoExit(reachable) == "loop"

\* position reached after client.get_list_database(): sys.exit(1) when it
\* raises, the for loop after switch_database otherwise
ConnectOutcome(reachable) == IF reachable THEN "loop" ELSE "exit1"

\* mutant of Forward: the watermark advances whether or not the write succeeded
ForwardIgnoringWrite(cfg, data, date, writeOk) ==
    IF Len(data) > 0
    THEN [cfg EXCEPT !.lastupdate = NewLastUpdate(cfg.lastupdate, date)]
    ELSE cfg

\* the if len(data) block: the configuration after the batch was offered to
\* client.write_points
Forward(cfg, data, date, writeOk) ==
    IF Len(data) > 0 /\ writeOk
    THEN [cfg EXCEPT !.lastupdate = NewLastUpdate(cfg.lastupdate, date)]
    ELSE cfg

\* a new process: json.load of the configuration file, the client and the
\* availability check
Start ==
    /\ pc \in {"idle", "done", "exit1", "crashed"}
    /\ runs < MaxRuns
    /\ runs' = runs + 1
    /\ config' = disk
    /\ idx' = 1
    /\ readLog' = <<>>
    /\ written' = <<>>
    /\ saves' = 0
    /\ \E reachable \in BOOLEAN :
         /\ connected' = reachable
         /\ pc' = ConnectOutcome(reachable)
         /\ exitcode' = IF pc' = "exit1" THEN 1 ELSE 0 - 1
    /\ values' = NoValues
    /\ result' = NoResult
    /\ UNCHANGED <<disk, ppc>>

\* one iteration of "for statefile in config['statefiles']" whose
\* read_state_file raises
DecodeFailure ==
    /\ pc = "loop"
    /\ idx <= Len(config.statefiles)
    /\ readLog' = Append(readLog, config.statefiles[idx])
    /\ idx' = idx + 1
    /\ UNCHANGED <<pc, config, disk, written, saves, connected, exitcode, runs>>
    /\ UNCHANGED packVars

\* one iteration of the loop on a state file that decodes
ProcessStateFile ==
    /\ pc = "loop"
    /\ idx <= Len(config.statefiles)
    /\ readLog' = Append(readLog, config.statefiles[idx])
    /\ \E vals \in StateFileContents, writeOk \in BOOLEAN :
         LET packed == PackValues(config, vals)
             data == packed.points
         IN  /\ values' = vals
             /\ result' = packed
             /\ IF packed.exc # "none"
                THEN /\ pc' = "crashed"
                     /\ exitcode' = 1
                     /\ UNCHANGED <<config, idx, written>>
                ELSE /\ config' = Forward(config, data, vals.date, writeOk)
                     /\ written' = IF Len(data) > 0 /\ writeOk
                                   THEN Append(written,
                                          [statefile |-> config.statefiles[idx],
                                           date |-> vals.date,
                                           points |-> Len(data)])
                                   ELSE written
                     /\ idx' = idx + 1
                     /\ UNCHANGED <<pc, exitcode>>
    /\ UNCHANGED <<disk, saves, connected, runs, ppc>>

\* json.dump(config, f) after the loop, and the end of the process
SaveConfig ==
    /\ pc = "loop"
    /\ idx > Len(config.statefiles)
    /\ disk' = config
    /\ saves' = saves + 1
    /\ pc' = "done"
    /\ exitcode' = 0
    /\ UNCHANGED <<config, idx, readLog, written, connected, runs>>
    /\ UNCHANGED packVars

Init ==
    /\ values = NoValues
    /\ result = NoResult
    /\ ppc = "call"
    /\ pc = "idle"
    /\ \E lu \in InitialLastUpdates :
         /\ disk = InitialConfig(lu)
         /\ config = InitialConfig(lu)
    /\ idx = 1
    /\ readLog = <<>>
    /\ written = <<>>
    /\ saves = 0
    /\ connected = FALSE
    /\ exitcode = 0 - 1
    /\ runs = 0

Next ==
    \/ Start
    \/ DecodeFailure
    \/ ProcessStateFile
    \/ SaveConfig

Spec == Init /\ [][Next]_vars

----------------------------------------------------------------------------
(* Properties of main *)

\* the order of watermarks: null is below every timestamp
LuLeq(a, b) == a = None \/ (b # None /\ a[1] <= b[1])

\* C1: the watermark never decreases: neither the lastupdate of the
\* configuration file, at any step, nor config['lastupdate'] from one state to
\* the next, through the state files of a run (decode failure, empty batch,
\* write failure, write success) and from one run to the next.  The step out
\* of a run that an exception ended is not one of the claim's cases.
C1_WatermarkMonotone ==
    [][ /\ LuLeq(disk.lastupdate, disk'.lastupdate)
        /\ (pc # "crashed" => LuLeq(config.lastupdate, config'.lastupdate)) ]_vars

\* a second run has written a state file collected before the watermark
C1_Witness ==
    /\ runs = 2
    /\ pc = "done"
    /\ \E n \in DOMAIN written : written[n].date < config.lastupdate[1]

\* C2: a run that passed the startup check reads every state file in list
\* order and ends normally: no failure in a state file ends the run, and only
\* the failed startup check gives a non-zero exit.
C2_FailureIsolation ==
    /\ pc # "crashed"
    /\ (exitcode > 0 => pc = "exit1")
    /\ (pc = "loop" => readLog = SubSeq(config.statefiles, 1, idx - 1))
    /\ (pc = "done" => readLog = config.statefiles)

\* C3: inside the loop config['lastupdate'] changes only in an iteration whose
\* non-empty batch the database accepted; a decode failure, an empty batch and
\* a write failure leave it, earlier advances included, as it was.
C3_WatermarkFrame ==
    [][ (pc = "loop" /\ config'.lastupdate # config.lastupdate) =>
          /\ Len(written') = Len(written) + 1
          /\ written'[Len(written')].statefile = config.statefiles[idx]
          /\ written'[Len(written')].points > 0
          /\ SubSeq(written', 1, Len(written)) = written ]_vars

\* the first state file advanced the watermark, the second one did not write,
\* and the advance is still there
C3_Witness ==
    /\ pc = "loop"
    /\ Len(readLog) = 2
    /\ Len(written) = 1
    /\ written[1].statefile = config.statefiles[1]
    /\ disk.lastupdate # config.lastupdate
    /\ config.lastupdate = Some(written[1].date)

\* C4: a run whose startup check failed has ended with a non-zero exit, has
\* read no state file, written no point, not saved the configuration and
\* left lastupdate as loaded; no step of the loop is possible.
C4_FatalConnectionFailure ==
    (runs > 0 /\ ~connected) =>
        /\ pc = "exit1"
        /\ exitcode = 1
        /\ readLog = <<>>
        /\ written = <<>>
        /\ saves = 0
        /\ config = disk
        /\ ~ENABLED DecodeFailure
        /\ ~ENABLED ProcessStateFile
        /\ ~ENABLED SaveConfig

\* the check failed in a run that follows one that advanced the watermark
C4_Witness ==
    /\ runs = 2
    /\ pc = "exit1"
    /\ ~connected
    /\ disk.lastupdate = Some(30)

\* C5: a run that passed the startup check saves the configuration exactly
\* once, after the last state file, with the watermark reached in memory.
C5_SingleSave ==
    /\ saves <= 1
    /\ (saves = 1 =>
          /\ pc = "done"
          /\ Len(readLog) = Len(config.statefiles)
          /\ disk.lastupdate = config.lastupdate)
    /\ (pc \in {"done", "crashed"} => saves = 1)

----------------------------------------------------------------------------
(* Properties of pack_values *)

Reserved == {"time", "tags"}

NameOf(e) == StripSuffix(e.metric)

Resolvable(e) == NameOf(e) \in DOMAIN config.metrics

MeasurementOf(e) == config.metrics[NameOf(e)][3]

FieldOf(e) == config.metrics[NameOf(e)][4]

TypeOf(e) == RrdType(NameOf(e))

IsNumeric(raw) == PyFloat(raw).k = "float"

NumberOf(raw) == PyFloat(raw).num

Visited == DOMAIN values.metrics

\* the positions of the resolvable metrics of measurement m
MetricsOf(m) ==
    { i \in Visited : Resolvable(values.metrics[i]) /\ MeasurementOf(values.metrics[i]) = m }

AllFieldsNull ==
    \A n \in DOMAIN result.points :
        \A f \in DOMAIN result.points[n].fields : result.points[n].fields[f] = NoneVal

C6_Case(e) ==
    /\ Resolvable(e)
    /\ TypeOf(e) \in {<<"a">>, <<"c">>, <<"d">>, <<"g">>}
    /\ FieldOf(e) \notin Reserved
    /\ IsNumeric(e.sample.current[2])
    /\ IsNumeric(e.sample.previous[2])
    /\ e.sample.current[1] = e.sample.previous[1]

\* C6: when every metric of the sample set is resolvable, of type a, c, d or
\* g, with numeric values and equal current and previous timestamps,
\* pack_values raises nothing and every field it computed is null.
C6_DivisionByZeroGuard ==
    (ppc # "call" /\ Visited # {} /\ \A i \in Visited : C6_Case(values.metrics[i])) =>
        (ppc = "returned" /\ Len(result.points) > 0 /\ AllFieldsNull)

C7_Case(e) ==
    /\ Resolvable(e)
    /\ TypeOf(e) \in {<<"c">>, <<"d">>}
    /\ FieldOf(e) \notin Reserved
    /\ IsNumeric(e.sample.current[2])
    /\ e.sample.previous[2] = U

\* C7: when every metric of the sample set is a resolvable counter or derive
\* metric with a numeric current value and the unknown sentinel as previous
\* value, pack_values raises nothing and every field is null.
C7_UnknownPrevious ==
    (ppc # "call" /\ Visited # {} /\ \A i \in Visited : C7_Case(values.metrics[i])) =>
        (ppc = "returned" /\ Len(result.points) > 0 /\ AllFieldsNull)

C8_Case(e) ==
    /\ Resolvable(e)
    /\ TypeOf(e) \in {<<"c">>, <<"d">>}
    /\ IsNumeric(e.sample.current[2])
    /\ IsNumeric(e.sample.previous[2])
    /\ e.sample.current[1] > e.sample.previous[1]

\* v is the float (current - previous) / (currentTimestamp - previousTimestamp)
IsRateOf(v, e) ==
    /\ v.k = "float"
    /\ v.den > 0
    /\ Gcd(Abs(v.num), v.den) = 1
    /\ v.num * (e.sample.current[1] - e.sample.previous[1]) =
         (NumberOf(e.sample.current[2]) - NumberOf(e.sample.previous[2])) * v.den

\* no metric visited after position i assigns the same field of the same point
LastAssignment(i) ==
    \A j \in Visited :
        (j > i /\ Resolvable(values.metrics[j])) =>
            ~ ( /\ MeasurementOf(values.metrics[j]) = MeasurementOf(values.metrics[i])
                /\ FieldOf(values.metrics[j]) = FieldOf(values.metrics[i]) )

\* C8: in the list pack_values returns, the field of a resolvable counter or
\* derive metric with numeric values and currentTimestamp > previousTimestamp
\* is (current - previous) / (currentTimestamp - previousTimestamp), at
\* whatever position the metric is visited.
C8_CounterRate ==
    ppc = "returned" =>
        \A i \in Visited :
            LET e == values.metrics[i]
            IN  (C8_Case(e) /\ FieldOf(e) \notin Reserved /\ LastAssignment(i)) =>
                    \E n \in DOMAIN result.points :
                        /\ result.points[n].measurement = MeasurementOf(e)
                        /\ FieldOf(e) \in DOMAIN result.points[n].fields
                        /\ IsRateOf(result.points[n].fields[FieldOf(e)], e)

\* a counter visited second, after a gauge of the same measurement: 7/3
C8_Witness ==
    /\ ppc = "returned"
    /\ Len(values.metrics) = 2
    /\ C8_Case(values.metrics[2])
    /\ values.metrics[2].metric = NameC
    /\ Len(result.points) = 1
    /\ result.points[1].fields = ("f1" :> FloatVal(12, 1)) @@ ("f2" :> FloatVal(7, 3))

\* C9: every returned point has as field names exactly the configured field
\* names of the resolvable metrics of its measurement, its tags are a tag set
\* and its time is a timestamp.
C9_FieldSetComplete ==
    ppc = "returned" =>
        \A n \in DOMAIN result.points :
            LET p == result.points[n]
            IN  /\ DOMAIN p.fields = { FieldOf(values.metrics[i]) : i \in MetricsOf(p.measurement) }
                /\ p.tags.k = "tags"
                /\ p.time.k = "int"

NoReservedField == \A i \in Visited : Resolvable(values.metrics[i]) => FieldOf(values.metrics[i]) \notin Reserved

First(S) == CHOOSE i \in S : \A j \in S : i <= j

Last(S) == CHOOSE i \in S : \A j \in S : j <= i

====
